---- MODULE Spec2Model ----
(***************************************************************************)
(* Model of gn_f2b_whitelist_sqlite.py: the fail2ban whitelist generator.  *)
(*                                                                         *)
(* Text is modelled as a sequence of lexemes ("atoms"): every delimiter    *)
(* character the program looks for ('=', '[', ']', '<', '>', ',', ':',     *)
(* ' ') is an atom of its own, and the other atoms ("alice", "2001",       *)
(* "203.0.113.7", ...) contain none of them.  str.find, str.index,         *)
(* str.startswith, str.split, str.count, slicing and string comparison are *)
(* computed on these sequences the way Python computes them on characters. *)
(* The output of the whois program is text of single characters.           *)
(*                                                                         *)
(* A run of the program is a sequence of steps: each pass of the loop over *)
(* the log file is a step of its own, a call of whois_bits is two, one     *)
(* that starts the whois process and one that takes its result, and the    *)
(* clock, syslog and the operator act between any two steps.               *)
(***************************************************************************)
EXTENDS Integers, Sequences, FiniteSets, TLC

(* ------------------------------------------------------------------ *)
(* Bounds of the model                                                 *)
(* ------------------------------------------------------------------ *)
MaxLiveLog == 2
MaxLiveRuns == 2
MaxLog == 1
MaxRuns == 3
MaxOldLog == 2
MaxOldRuns == 2
MaxParseLog == 2
ParseRuns == 1
MaxIPs == 23

(* ------------------------------------------------------------------ *)
(* Program constants                                                   *)
(* ------------------------------------------------------------------ *)
RECORDS_MAX_AGE == 30

FINDERS ==
  << [ fstring |-> <<"sasl_username">>,
       skip |-> <<"authentication", " ", "failed">>,
       user_start |-> <<"sasl_username", "=">>,
       user_between |-> <<"=", "None">>,
       ip_start |-> <<"client", "=">>,
       ip_between |-> <<"[", "]">>,
       backend |-> "p" ],
     [ fstring |-> <<"imap-login">>,
       skip |-> <<"auth", " ", "failed">>,
       user_start |-> <<"user", "=">>,
       user_between |-> <<"<", ">">>,
       ip_start |-> <<"rip", "=">>,
       ip_between |-> <<"=", ",">>,
       backend |-> "d" ] >>

(* ------------------------------------------------------------------ *)
(* Python string primitives on atom sequences                          *)
(* ------------------------------------------------------------------ *)

\* Code-point order of the atoms that occur in compared strings (timestamps,
\* IP addresses, user names): the position of each atom in the list sorted by
\* Python's str comparison.  No atom of the list is a prefix of another atom
\* that can stand at the same place of a compared string.
AtomOrder ==
  << "-", ".", "/64", "0", "1", "10.0.0.", "198.51.100.9", "2", "2001",
     "203.0.113.7", "3", "4", "5", "6", "7", "8", "9", ":", "T",
     "alice", "bob", "carol", "dave", "db8" >>

Rank(a) == CHOOSE i \in 1..Len(AtomOrder) : AtomOrder[i] = a

\* a < b for Python str (and SQLite BINARY text) comparison.
RECURSIVE StrLess(_, _)
StrLess(a, b) ==
  IF b = <<>> THEN FALSE
  ELSE IF a = <<>> THEN TRUE
  ELSE IF Head(a) = Head(b) THEN StrLess(Tail(a), Tail(b))
  ELSE Rank(Head(a)) < Rank(Head(b))

StrLeq(a, b) == a = b \/ StrLess(a, b)

\* text.startswith(prefix)
StartsWith(text, prefix) ==
  /\ Len(prefix) <= Len(text)
  /\ SubSeq(text, 1, Len(prefix)) = prefix

\* text.find(sub): 0-based position of the first occurrence, -1 if none.
Find(text, sub) ==
  LET hits == { i \in 1..(Len(text) - Len(sub) + 1) :
                  SubSeq(text, i, i + Len(sub) - 1) = sub }
  IN IF hits = {} THEN -1
     ELSE (CHOOSE i \in hits : \A j \in hits : i <= j) - 1

\* text.count(ch) for a one-character ch.
Count(text, ch) == Cardinality({ i \in 1..Len(text) : text[i] = ch })

\* text[start:end] with 0-based start (inclusive) and end (exclusive).
Slice(text, start, end) ==
  IF start >= end THEN <<>> ELSE SubSeq(text, start + 1, end)

\* text.split(ch): the pieces between the occurrences of ch.
RECURSIVE SplitOn(_, _)
SplitOn(text, ch) ==
  LET p == Find(text, <<ch>>)
  IN IF p < 0 THEN <<text>>
     ELSE <<Slice(text, 0, p)>> \o SplitOn(Slice(text, p + 1, Len(text)), ch)

\* sep.join(pieces)
RECURSIVE Join(_, _)
Join(pieces, sep) ==
  IF pieces = <<>> THEN <<>>
  ELSE IF Len(pieces) = 1 THEN pieces[1]
  ELSE pieces[1] \o <<sep>> \o Join(Tail(pieces), sep)

\* extract_between(text, first, last).  "None" stands for Python's None;
\* ok = FALSE is the ValueError str.index raises when the character is absent.
extract_between(text, first, last) ==
  LET pf == IF first = "None" THEN -1 ELSE Find(text, <<first>>)
      pl == IF last = "None" THEN Len(text) ELSE Find(text, <<last>>)
      start == IF first = "None" THEN 0 ELSE pf + 1
  IN IF (first # "None" /\ pf < 0) \/ (last # "None" /\ pl < 0)
       THEN [ok |-> FALSE, val |-> <<>>]
       ELSE [ok |-> TRUE, val |-> Slice(text, start, pl)]

(* ------------------------------------------------------------------ *)
(* Time: the wall clock, syslog's stamp, convert_time, delete_until    *)
(* ------------------------------------------------------------------ *)

\* The instants the wall clock passes through (local time, to the second).
\* Instants 1 and 2 are one second apart; instant 3 is exactly RECORDS_MAX_AGE
\* days after instant 2, in the next year.
Moments ==
  << [year |-> 2024, mon |-> 12, day |-> 2, hh |-> 9,  mm |-> 59, ss |-> 59],
     [year |-> 2024, mon |-> 12, day |-> 2, hh |-> 10, mm |-> 0,  ss |-> 0],
     [year |-> 2025, mon |-> 1,  day |-> 1, hh |-> 10, mm |-> 0,  ss |-> 0] >>

MonthAbbr ==
  << "Jan", "Feb", "Mar", "Apr", "May", "Jun",
     "Jul", "Aug", "Sep", "Oct", "Nov", "Dec" >>

\* The 15-character stamp syslog writes at the head of a line: no year.
LogStamp(m) ==
  [mon |-> MonthAbbr[m.mon], day |-> m.day, hh |-> m.hh, mm |-> m.mm, ss |-> m.ss]

DigitAtom(d) == << "0", "1", "2", "3", "4", "5", "6", "7", "8", "9" >>[d + 1]

\* %d, %m, %H, %M, %S of strftime: two digits, zero padded.
Pad2(n) == <<DigitAtom(n \div 10), DigitAtom(n % 10)>>

\* %Y of strftime
Pad4(n) ==
  <<DigitAtom(n \div 1000), DigitAtom((n \div 100) % 10),
    DigitAtom((n \div 10) % 10), DigitAtom(n % 10)>>

\* strftime('%Y-%m-%dT%H:%M:%S', t)
strftime(t) ==
  Pad4(t.year) \o <<"-">> \o Pad2(t.mon) \o <<"-">> \o Pad2(t.day) \o <<"T">>
    \o Pad2(t.hh) \o <<":">> \o Pad2(t.mm) \o <<":">> \o Pad2(t.ss)

\* %b of strptime
MonthNum(abbr) == CHOOSE i \in 1..12 : MonthAbbr[i] = abbr

\* convert_time(time_from_log) when time.localtime().tm_year is curr_year.
convert_time(time_from_log, curr_year) ==
  strftime([year |-> curr_year, mon |-> MonthNum(time_from_log.mon),
            day |-> time_from_log.day, hh |-> time_from_log.hh,
            mm |-> time_from_log.mm, ss |-> time_from_log.ss])

\* The proleptic Gregorian calendar of datetime.
IsLeap(y) == (y % 4 = 0) /\ ((y % 100 # 0) \/ (y % 400 = 0))

DaysInMonth(y, m) ==
  IF m = 2 THEN (IF IsLeap(y) THEN 29 ELSE 28)
  ELSE IF m \in {4, 6, 9, 11} THEN 30 ELSE 31

RECURSIVE DaysBeforeMonth(_, _)
DaysBeforeMonth(y, m) ==
  IF m = 1 THEN 0 ELSE DaysBeforeMonth(y, m - 1) + DaysInMonth(y, m - 1)

DaysBeforeYear(y) ==
  (y - 1) * 365 + ((y - 1) \div 4) - ((y - 1) \div 100) + ((y - 1) \div 400)

\* date.toordinal()
ToOrdinal(y, m, d) == DaysBeforeYear(y) + DaysBeforeMonth(y, m) + d

\* date.fromordinal(n), for a date in the year of `near` or the year before
FromOrdinal(n, near) ==
  CHOOSE c \in [year : {near - 1, near}, mon : 1..12, day : 1..31] :
    /\ c.day <= DaysInMonth(c.year, c.mon)
    /\ ToOrdinal(c.year, c.mon, c.day) = n

\* datetime.now() - timedelta(days=RECORDS_MAX_AGE), formatted as in the DB
delete_until(now) ==
  LET c == FromOrdinal(ToOrdinal(now.year, now.mon, now.day) - RECORDS_MAX_AGE, now.year)
  IN strftime([year |-> c.year, mon |-> c.mon, day |-> c.day,
               hh |-> now.hh, mm |-> now.mm, ss |-> now.ss])

(* ------------------------------------------------------------------ *)
(* process_new_log_records: one line of the log                        *)
(* ------------------------------------------------------------------ *)

\* A log line is [stamp, parts]: syslog's stamp and the whitespace-separated
\* tokens that follow it.  LineText is the line as find() sees it; "TS"
\* stands for the 15 characters of the stamp, so nothing after it is found
\* at position 0.
LineText(line) == <<"TS", " ">> \o Join(line.parts, " ")

\* line.split(): the three tokens of the stamp start with no field prefix and
\* are left out.
SplitLine(line) == line.parts

\* Lines 150-162: the index in FINDERS of the rule the for loop breaks on with
\* bother_with_this_line set, 0 when the line is not bothered with.
RECURSIVE SelectRuleFrom(_, _)
SelectRuleFrom(text, i) ==
  IF i > Len(FINDERS) THEN 0
  ELSE IF Find(text, FINDERS[i].skip) > 0 THEN 0
  ELSE IF Find(text, FINDERS[i].fstring) < 0 THEN SelectRuleFrom(text, i + 1)
  ELSE i

SelectRuleLastWins(text) ==
  LET hits == { i \in 1..Len(FINDERS) :
                  Find(text, FINDERS[i].fstring) >= 0 /\ Find(text, FINDERS[i].skip) <= 0 }
  IN IF hits = {} THEN 0 ELSE CHOOSE i \in hits : \A j \in hits : j <= i

SelectRule(text) == SelectRuleFrom(text, 1)

\* Lines 165-172: the loop over the tokens.  acc is [ok, ip, user]; ok turns
\* FALSE when extract_between raises, and the loop ends there.
RECURSIVE ExtractFields(_, _, _)
ExtractFields(parts, find_item, acc) ==
  IF parts = <<>> \/ ~acc.ok THEN acc
  ELSE LET part == Head(parts)
       IN IF StartsWith(part, find_item.user_start)
            THEN LET r == extract_between(part, find_item.user_between[1],
                                          find_item.user_between[2])
                 IN ExtractFields(Tail(parts), find_item,
                      [ok |-> r.ok, ip |-> acc.ip, user |-> r.val])
          ELSE IF StartsWith(part, find_item.ip_start)
            THEN LET r == extract_between(part, find_item.ip_between[1],
                                          find_item.ip_between[2])
                 IN ExtractFields(Tail(parts), find_item,
                      [ok |-> r.ok, ip |-> r.val, user |-> acc.user])
          ELSE ExtractFields(Tail(parts), find_item, acc)

\* Lines 175-177: IPv6 ? - use /64
NormalizeIpFiveGroups(ip) ==
  IF Count(ip, ":") >= 4
    THEN Join(SubSeq(SplitOn(ip, ":"), 1, 4), ":") \o <<":", ":", "/64">>
    ELSE ip

NormalizeIp(ip) ==
  IF Count(ip, ":") > 4
    THEN Join(SubSeq(SplitOn(ip, ":"), 1, 4), ":") \o <<":", ":", "/64">>
    ELSE ip

\* Line 146: skip lines already processed in a previous run.
AlreadyProcessed(timestamp, max_timestamp) == StrLeq(timestamp, max_timestamp)

\* Lines 144-180 for one line: what the loop body does with it.
\*   "skip"   the line is passed over (continue),
\*   "insert" the row is inserted and committed,
\*   "raise"  extract_between raises ValueError, which nothing catches.
ProcessLine(line, max_timestamp, curr_year) ==
  LET timestamp == convert_time(line.stamp, curr_year)
      r == SelectRule(LineText(line))
      f == ExtractFields(SplitLine(line), FINDERS[r],
                         [ok |-> TRUE, ip |-> <<>>, user |-> <<>>])
      none == [timestamp |-> timestamp, ip |-> <<>>, username |-> <<>>, backend |-> ""]
  IN IF AlreadyProcessed(timestamp, max_timestamp) THEN [kind |-> "skip", row |-> none]
     ELSE IF r = 0 THEN [kind |-> "skip", row |-> none]
     ELSE IF ~f.ok THEN [kind |-> "raise", row |-> none]
     ELSE IF f.ip = <<>> \/ f.user = <<>> THEN [kind |-> "skip", row |-> none]
     ELSE [kind |-> "insert",
           row |-> [timestamp |-> timestamp, ip |-> NormalizeIp(f.ip),
                    username |-> f.user, backend |-> FINDERS[r].backend]]

\* Lines 136-139: SELECT max(timestamp) FROM journal, '' for an empty table.
RECURSIVE MaxTimestamp(_)
MaxTimestamp(rows) ==
  IF rows = <<>> THEN <<>>
  ELSE LET m == MaxTimestamp(Tail(rows))
       IN IF StrLess(m, Head(rows).timestamp) THEN Head(rows).timestamp ELSE m

(* ------------------------------------------------------------------ *)
(* read_db_to_dict, create_f2b_whitelist                               *)
(* ------------------------------------------------------------------ *)

\* The strings of set S in ascending order: list.sort(), ORDER BY.
RECURSIVE SortStrings(_)
SortStrings(S) ==
  IF S = {} THEN <<>>
  ELSE LET x == CHOOSE y \in S : TRUE
           rest == SortStrings(S \ {x})
           before == Cardinality({ i \in 1..Len(rest) : StrLess(rest[i], x) })
       IN SubSeq(rest, 1, before) \o <<x>> \o SubSeq(rest, before + 1, Len(rest))

\* QUERY and lines 186-190: one (username, count) pair for every user of an
\* IP, in the order SQLite's GROUP BY ip, username delivers the groups.
read_db_to_dict(rows) ==
  LET ips == { rows[i].ip : i \in 1..Len(rows) }
      usersOf(ip) == { rows[i].username : i \in { j \in 1..Len(rows) : rows[j].ip = ip } }
      cnt(ip, u) == Cardinality({ i \in 1..Len(rows) :
                                    rows[i].ip = ip /\ rows[i].username = u })
  IN [ ip \in ips |->
         LET us == SortStrings(usersOf(ip))
         IN [ k \in 1..Len(us) |-> <<us[k], cnt(ip, us[k])>> ] ]

\* Lines 195-196: rec_keys
RecKeys(recs) == SortStrings(DOMAIN recs)

\* Lines 198-204: use IPs with at least 2 users or individuals with more
\* than 2 logins.
SelectedAtLeastTwoLogins(recs, key) ==
  IF Len(recs[key]) > 1 THEN TRUE ELSE recs[key][1][2] >= 2

Selected(recs, key) ==
  IF Len(recs[key]) > 1 THEN TRUE ELSE recs[key][1][2] > 2

RECURSIVE FilterKeys(_, _)
FilterKeys(keys, recs) ==
  IF keys = <<>> THEN <<>>
  ELSE IF Selected(recs, Head(keys))
    THEN <<Head(keys)>> \o FilterKeys(Tail(keys), recs)
    ELSE FilterKeys(Tail(keys), recs)

KeysReduced(recs) == FilterKeys(RecKeys(recs), recs)

\* keys[s:e] of Python, e cut to the length of the list
ListSlice(keys, s, e) ==
  Slice(keys, s, IF e > Len(keys) THEN Len(keys) ELSE e)

\* Lines 206-219: the text of self.ignores, one element per line of text (the
\* blank lines of the header are left out).  Lines 209-212 write the full
\* lines of ten, lines 213-218 the line that follows them.
IgnoresText(keys_reduced) ==
  LET n == Len(keys_reduced)
      full == n \div 10
      nl == IF full >= 1 THEN full - 1 ELSE 0
      s == IF n <= 10 THEN 0 ELSE (nl + 1) * 10
  IN << [kind |-> "text", text |-> "[DEFAULT]"],
        [kind |-> "text", text |-> "ignoreip_local ="] >>
     \o [ i \in 1..full |->
            [kind |-> "ips", ips |-> ListSlice(keys_reduced, (i - 1) * 10, (i - 1) * 10 + 10)] ]
     \o (IF s <= n
           THEN << [kind |-> "ips", ips |-> ListSlice(keys_reduced, s, n)] >>
           ELSE << >>)
     \o << [kind |-> "count", n |-> n] >>

create_f2b_whitelist(recs) == IgnoresText(KeysReduced(recs))

(* ------------------------------------------------------------------ *)
(* whois_bits                                                          *)
(* ------------------------------------------------------------------ *)

\* The output of the whois program is text of characters: a line is a
\* sequence of one-character strings.
UpperCase ==
  << "A", "B", "C", "D", "E", "F", "G", "H", "I", "J", "K", "L", "M",
     "N", "O", "P", "Q", "R", "S", "T", "U", "V", "W", "X", "Y", "Z" >>

LowerCase ==
  << "a", "b", "c", "d", "e", "f", "g", "h", "i", "j", "k", "l", "m",
     "n", "o", "p", "q", "r", "s", "t", "u", "v", "w", "x", "y", "z" >>

\* line.lower()
Lower(text) ==
  [ i \in 1..Len(text) |->
      IF \E k \in 1..Len(UpperCase) : UpperCase[k] = text[i]
        THEN LowerCase[CHOOSE k \in 1..Len(UpperCase) : UpperCase[k] = text[i]]
        ELSE text[i] ]

\* text.strip(): the blanks at both ends removed
RECURSIVE LStrip(_)
LStrip(text) ==
  IF text # <<>> /\ Head(text) = " " THEN LStrip(Tail(text)) ELSE text

RECURSIVE RStrip(_)
RStrip(text) ==
  IF text # <<>> /\ text[Len(text)] = " "
    THEN RStrip(SubSeq(text, 1, Len(text) - 1))
    ELSE text

Strip(text) == RStrip(LStrip(text))

\* What subprocess.run(('whois', ip), capture_output=True) can meet: the
\* program is not installed (found = FALSE), or it runs and ends with a
\* return code and the lines of its standard output.
WhoisAnswered ==
  [ found |-> TRUE, returncode |-> 0,
    stdout |->
      << <<"N", "e", "t", "N", "a", "m", "e", ":", " ", "E", "X", "A", "M", "P", "L",
           "E", "-", "N", "E", "T", "W", "O", "R", "K", "-", "P", "R", "A", "G", "U", "E">>,
         <<"C", "o", "u", "n", "t", "r", "y", ":", " ", "C", "Z">> >> ]

WhoisFailed == [ found |-> TRUE, returncode |-> 1, stdout |-> <<>> ]

WhoisNoMatch ==
  [ found |-> TRUE, returncode |-> 0,
    stdout |-> << <<"%", " ", "N", "o", " ", "m", "a", "t", "c", "h">> >> ]

WhoisNoColon ==
  [ found |-> TRUE, returncode |-> 0,
    stdout |->
      << <<"C", "o", "u", "n", "t", "r", "y", " ", "c", "o", "d", "e", " ", "l", "o",
           "o", "k", "u", "p", " ", "f", "a", "i", "l", "e", "d">> >> ]

WhoisMissing == [ found |-> FALSE, returncode |-> 0, stdout |-> <<>> ]

WhoisResults == {WhoisAnswered, WhoisFailed, WhoisNoMatch, WhoisNoColon, WhoisMissing}

\* Lines 90-97: the loop over the lines of the answer.  acc is
\* [exc, country, netname]; exc names the exception that ends the loop.
RECURSIVE WhoisScan(_, _)
WhoisScan(lines, acc) ==
  IF lines = <<>> \/ acc.exc # "" THEN acc
  ELSE LET line == Lower(Head(lines))
           pieces == SplitOn(line, ":")
       IN IF StartsWith(line, <<"c", "o", "u", "n", "t", "r", "y">>)
            THEN IF Len(pieces) < 2
                   THEN [acc EXCEPT !.exc = "IndexError"]
                   ELSE WhoisScan(Tail(lines), [acc EXCEPT !.country = Strip(pieces[2])])
          ELSE IF StartsWith(line, <<"n", "e", "t", "n", "a", "m", "e", ":">>)
            THEN WhoisScan(Tail(lines), [acc EXCEPT !.netname = Strip(pieces[2])])
          ELSE WhoisScan(Tail(lines), acc)

\* whois_bits(ip) when the whois process for ip meets sp: the exception
\* raised ("" for none) and the value returned.
whois_bits(ip, sp) ==
  IF ~sp.found THEN [exc |-> "FileNotFoundError", val |-> <<>>]
  ELSE IF sp.returncode # 0 THEN [exc |-> "", val |-> <<>>]
  ELSE LET r == WhoisScan(sp.stdout, [exc |-> "", country |-> <<>>, netname |-> <<>>])
       IN IF r.exc # "" THEN [exc |-> r.exc, val |-> <<>>]
          ELSE [exc |-> "", val |-> ListSlice(r.country \o <<" ">> \o r.netname, 0, 21)]

(* ------------------------------------------------------------------ *)
(* create_f2b_comments                                                 *)
(* ------------------------------------------------------------------ *)

\* The four loops of lines 230-244, in their order
TierNames == <<"hard", "soft", "individual", "unused">>

\* Lines 229, 233, 237, 241: the heading written before each loop
TierHeader ==
  << "# Hard whitelist", "# soft whitelist", "# individuals whitelist",
     "# not used IPs to whitelist" >>

\* The condition of each of the four loops
InTierHard(recs, key) == Len(recs[key]) > 3
InTierSoft(recs, key) == Len(recs[key]) > 1 /\ Len(recs[key]) <= 3
InTierIndividualAbove(recs, key) == Len(recs[key]) = 1 /\ recs[key][1][2] > 3
InTierIndividual(recs, key) == Len(recs[key]) = 1 /\ recs[key][1][2] >= 3
InTierUnused(recs, key) == Len(recs[key]) <= 1 /\ recs[key][1][2] < 3

InTier(tier, recs, key) ==
  CASE tier = "hard" -> InTierHard(recs, key)
    [] tier = "soft" -> InTierSoft(recs, key)
    [] tier = "individual" -> InTierIndividual(recs, key)
    [] tier = "unused" -> InTierUnused(recs, key)

\* The loops stand in loop t with k keys of rec_keys passed: where they
\* stand at the next call of whois_bits, the next key that passes the
\* condition of its loop.  Past the last loop (tier > Len(TierNames)) when no
\* call is left.
RECURSIVE NextCall(_, _, _, _)
NextCall(rec_keys, recs, t, k) ==
  IF t > Len(TierNames) THEN [tier |-> t, key |-> 0]
  ELSE IF k >= Len(rec_keys) THEN NextCall(rec_keys, recs, t + 1, 0)
  ELSE IF InTier(TierNames[t], recs, rec_keys[k + 1]) THEN [tier |-> t, key |-> k + 1]
  ELSE NextCall(rec_keys, recs, t, k + 1)

\* Lines 227-229: the text self.comments starts with
CommentsHead ==
  << [kind |-> "text", text |-> "# File generated from script"],
     [kind |-> "text", text |-> "# Check and copy IP adresses"],
     [kind |-> "text", text |-> TierHeader[1]] >>

\* The headings written on the way from loop a to loop b, or to the end
Headings(a, b) ==
  LET last == IF b > Len(TierNames) THEN Len(TierNames) ELSE b
  IN [ i \in 1..(last - a) |-> [kind |-> "text", text |-> TierHeader[a + i]] ]

\* Lines 232, 236, 240, 244: the line of a key
ReportLine(t, key, whois, recs) ==
  [kind |-> TierNames[t], key |-> key, whois |-> whois, recs |-> recs[key]]

(* ------------------------------------------------------------------ *)
(* db_delete_old_records                                               *)
(* ------------------------------------------------------------------ *)

\* Line 266: DELETE FROM journal WHERE timestamp < ?
RECURSIVE DeleteOlderOrEqual(_, _)
DeleteOlderOrEqual(rows, until) ==
  IF rows = <<>> THEN <<>>
  ELSE IF StrLeq(Head(rows).timestamp, until)
    THEN DeleteOlderOrEqual(Tail(rows), until)
    ELSE <<Head(rows)>> \o DeleteOlderOrEqual(Tail(rows), until)

RECURSIVE DeleteOlder(_, _)
DeleteOlder(rows, until) ==
  IF rows = <<>> THEN <<>>
  ELSE IF StrLess(Head(rows).timestamp, until)
    THEN DeleteOlder(Tail(rows), until)
    ELSE <<Head(rows)>> \o DeleteOlder(Tail(rows), until)

(* ------------------------------------------------------------------ *)
(* State                                                               *)
(* ------------------------------------------------------------------ *)
VARIABLES
  clock,          \* the wall clock: an index into Moments
  log,            \* LOG_FILENAME: the lines syslog has written
  journal,        \* the rows of table journal, in insertion order
  inserts,        \* history: every INSERT made so far, with the number of its line
  writes,         \* history: the number of completed calls of write_f2b_whitelist
  midrun,         \* history: syslog has written a line while the program was running
  pc,             \* where __main__ stands: "idle" between two runs
  exc,            \* the exception that ended the process, "" for none
  runs,           \* number of runs started
  max_timestamp,  \* process_new_log_records: its local max_timestamp
  pos,            \* process_new_log_records: lines read from logfile so far
  rec_keys,       \* create_f2b_comments: its local rec_keys
  tier,           \* create_f2b_comments: the loop that is running, 1..4
  key,            \* create_f2b_comments: keys of rec_keys this loop has passed
  records,        \* Whitelist.records
  ignores,        \* Whitelist.ignores
  comments,       \* Whitelist.comments
  draft,          \* the file IGNORE_DRAFT_FNAME
  bak             \* the file IGNORE_DRAFT_FNAME + '.bak'

vars ==
  << clock, log, journal, inserts, writes, midrun, pc, exc, runs, max_timestamp, pos,
     rec_keys, tier, key, records, ignores, comments, draft, bak >>

NoFile == [exists |-> FALSE, text |-> <<>>]
File(text) == [exists |-> TRUE, text |-> text]

\* The dict() of line 108
EmptyDict == [ip \in {} |-> <<>>]

(* ------------------------------------------------------------------ *)
(* Log lines the environment writes                                    *)
(* ------------------------------------------------------------------ *)
TokClientV4 == <<"client", "=", "mail", "[", "203.0.113.7", "]", ",">>
TokSaslAlice == <<"sasl_username", "=", "alice">>
TokImap == <<"imap-login", ":">>
TokUserBob == <<"user", "=", "<", "bob", ">", ",">>
TokRipV4 == <<"rip", "=", "198.51.100.9", ",">>

\* postfix: client=mail[203.0.113.7], sasl_username=alice
BodyPostfix == <<TokClientV4, TokSaslAlice>>
\* dovecot: imap-login: user=<bob>, rip=198.51.100.9,
BodyDovecot == <<TokImap, TokUserBob, TokRipV4>>
\* a line of no interest
BodyOther == <<<<"disconnect">>>>

\* What syslog writes in Spec: logins from two addresses
LiveBodies == {BodyPostfix, BodyDovecot}

\* What syslog writes in SpecRuns: a login, a line of no interest
IngestBodies == {BodyPostfix, BodyOther}

\* What syslog writes in SpecAging: logins of one user from one address
AgingBodies == {BodyPostfix}

ParseBodies ==
  { BodyPostfix, BodyDovecot, BodyOther,
    \* IPv6 with 8 groups, 6 groups (5 colons) and 5 groups (4 colons)
    << <<"client", "=", "[", "2001", ":", "db8", ":", "0", ":", "1", ":", "0", ":",
         "0", ":", "0", ":", "5", "]">>, TokSaslAlice >>,
    << <<"client", "=", "[", "2001", ":", "db8", ":", "0", ":", "1", ":", ":", "5", "]">>,
       TokSaslAlice >>,
    << <<"client", "=", "[", "2001", ":", "db8", ":", ":", "1", ":", "2", "]">>,
       TokSaslAlice >>,
    \* dovecot, rip= is the last field and has no comma after it
    << TokImap, TokUserBob, <<"rip", "=", "198.51.100.9">> >>,
    \* postfix, client= without brackets
    << <<"client", "=", "203.0.113.7">>, TokSaslAlice >>,
    \* postfix failure: ... authentication failed: ... sasl_username=alice
    << TokClientV4, <<"authentication">>, <<"failed", ":">>, TokSaslAlice >>,
    \* dovecot failure: imap-login: ... (auth failed, ...)
    << TokImap, <<"auth">>, <<"failed", ",">>, TokUserBob, TokRipV4 >>,
    \* both success markers, and the fields of both rules
    << TokImap, TokClientV4, TokSaslAlice, TokUserBob, TokRipV4 >>,
    \* postfix without a client= token, and with an empty user name
    << TokSaslAlice >>,
    << TokClientV4, <<"sasl_username", "=">> >> }

(* ------------------------------------------------------------------ *)
(* Actions of the environment                                          *)
(* ------------------------------------------------------------------ *)

\* No process of the program is running.
Idle == pc \in {"idle", "aborted"}

\* Time passes, whatever the program is doing.
Tick ==
  /\ clock < Len(Moments)
  /\ clock' = clock + 1
  /\ UNCHANGED << midrun, log, journal, inserts, writes, pc, exc, runs, max_timestamp,
                  pos, rec_keys, tier, key, records, ignores, comments, draft,
                  bak >>

\* syslog appends a line, stamped with the wall clock, whatever the program
\* is doing.
AppendLine(bodies, maxlog) ==
  /\ Len(log) < maxlog
  /\ \E b \in bodies :
       log' = Append(log, [stamp |-> LogStamp(Moments[clock]), parts |-> b])
  /\ midrun' = (midrun \/ ~Idle)
  /\ UNCHANGED << clock, journal, inserts, writes, pc, exc, runs,
                  max_timestamp, pos, rec_keys, tier, key, records, ignores,
                  comments, draft, bak >>

\* Lines 257-261: Whitelist.db_empty(), the debugging aid.  __main__ does not
\* call it: an operator does, from a session of their own, at any time.
db_empty ==
  /\ journal' = <<>>
  /\ UNCHANGED << midrun, clock, log, inserts, writes, pc, exc, runs, max_timestamp,
                  pos, rec_keys, tier, key, records, ignores, comments, draft,
                  bak >>

(* ------------------------------------------------------------------ *)
(* Actions of __main__                                                 *)
(* ------------------------------------------------------------------ *)

\* Lines 102-112, 272: wl = Whitelist(), in a new process
Construct(maxruns) ==
  /\ Idle
  /\ runs < maxruns
  /\ runs' = runs + 1
  /\ pc' = "opened"
  /\ exc' = ""
  /\ max_timestamp' = <<>>
  /\ pos' = 0
  /\ rec_keys' = <<>>
  /\ tier' = 1
  /\ key' = 0
  /\ records' = EmptyDict
  /\ ignores' = <<>>
  /\ comments' = <<>>
  /\ UNCHANGED << midrun, clock, log, journal, inserts, writes, draft, bak >>

\* Lines 263-267, 273: wl.db_delete_old_records()
db_delete_old_records ==
  /\ pc = "opened"
  /\ journal' = DeleteOlder(journal, delete_until(Moments[clock]))
  /\ pc' = "pruned"
  /\ UNCHANGED << midrun, clock, log, inserts, writes, exc, runs, max_timestamp, pos,
                  rec_keys, tier, key, records, ignores, comments, draft, bak >>

\* Lines 136-141, 274: wl.process_new_log_records() up to the loop:
\* max_timestamp is read once and the log file is opened.
process_new_log_records ==
  /\ pc = "pruned"
  /\ max_timestamp' = MaxTimestamp(journal)
  /\ pos' = 0
  /\ pc' = "reading"
  /\ UNCHANGED << midrun, clock, log, journal, inserts, writes, exc, runs, rec_keys,
                  tier, key, records, ignores, comments, draft, bak >>

\* Lines 142-181: one pass of the loop.  It reads the next line of the file,
\* the lines appended since the file was opened included, reads the clock
\* for the year, and commits the row it inserts.  An exception ends the
\* process.
ReadLine ==
  /\ pc = "reading"
  /\ pos < Len(log)
  /\ LET r == ProcessLine(log[pos + 1], max_timestamp, Moments[clock].year)
     IN /\ journal' = IF r.kind = "insert" THEN Append(journal, r.row) ELSE journal
        /\ inserts' = IF r.kind = "insert"
                        THEN Append(inserts, [line |-> pos + 1, row |-> r.row])
                        ELSE inserts
        /\ pos' = IF r.kind = "raise" THEN pos ELSE pos + 1
        /\ pc' = IF r.kind = "raise" THEN "aborted" ELSE pc
        /\ exc' = IF r.kind = "raise" THEN "ValueError" ELSE exc
  /\ UNCHANGED << midrun, clock, log, writes, runs, max_timestamp, rec_keys, tier,
                  key, records, ignores, comments, draft, bak >>

\* Line 142 at the end of the file: the loop ends and the method returns.
EndOfLog ==
  /\ pc = "reading"
  /\ pos = Len(log)
  /\ pc' = "processed"
  /\ max_timestamp' = <<>>
  /\ pos' = 0
  /\ UNCHANGED << midrun, clock, log, journal, inserts, writes, exc, runs, rec_keys,
                  tier, key, records, ignores, comments, draft, bak >>

\* Lines 183-190, 275: wl.read_db_to_dict()
ReadDbToDict ==
  /\ pc = "processed"
  /\ records' = read_db_to_dict(journal)
  /\ pc' = "read"
  /\ UNCHANGED << midrun, clock, log, journal, inserts, writes, exc, runs,
                  max_timestamp, pos, rec_keys, tier, key, ignores, comments,
                  draft, bak >>

\* Lines 224-229, 276: wl.create_f2b_comments() up to the first loop
create_f2b_comments ==
  /\ pc = "read"
  /\ rec_keys' = RecKeys(records)
  /\ comments' = CommentsHead
  /\ tier' = 1
  /\ key' = 0
  /\ pc' = "commenting"
  /\ UNCHANGED << midrun, clock, log, journal, inserts, writes, exc, runs,
                  max_timestamp, pos, records, ignores, draft, bak >>

\* Lines 230-244 up to the next call of whois_bits: the loops go on to the
\* next key that passes the condition of its loop, writing the headings of
\* the loops they leave, and line 86 starts the whois process.
CallWhois ==
  /\ pc = "commenting"
  /\ LET call == NextCall(rec_keys, records, tier, key)
     IN /\ call.tier <= Len(TierNames)
        /\ comments' = comments \o Headings(tier, call.tier)
        /\ tier' = call.tier
        /\ key' = call.key
  /\ pc' = "whois"
  /\ UNCHANGED << midrun, clock, log, journal, inserts, writes, exc, runs,
                  max_timestamp, pos, rec_keys, records, ignores, draft, bak >>

\* Lines 86-98, then line 232, 236, 240 or 244: the whois process ends, with
\* one of `results`, and whois_bits returns; the line of the key is written.
\* An exception of whois_bits ends the process.
WhoisReturns(results) ==
  /\ pc = "whois"
  /\ \E sp \in results :
       LET w == whois_bits(rec_keys[key], sp)
       IN IF w.exc # ""
            THEN /\ comments' = comments
                 /\ pc' = "aborted"
                 /\ exc' = w.exc
            ELSE /\ comments' = Append(comments, ReportLine(tier, rec_keys[key],
                                                            w.val, records))
                 /\ pc' = "commenting"
                 /\ exc' = exc
  /\ UNCHANGED << midrun, clock, log, journal, inserts, writes, runs, max_timestamp,
                  pos, rec_keys, tier, key, records, ignores, draft, bak >>

\* Lines 230-244 after the last call of whois_bits: the loops run to their
\* ends and the method returns.
EndOfComments ==
  /\ pc = "commenting"
  /\ NextCall(rec_keys, records, tier, key).tier > Len(TierNames)
  /\ comments' = comments \o Headings(tier, Len(TierNames))
  /\ rec_keys' = <<>>
  /\ tier' = 1
  /\ key' = 0
  /\ pc' = "commented"
  /\ UNCHANGED << midrun, clock, log, journal, inserts, writes, exc, runs,
                  max_timestamp, pos, records, ignores, draft, bak >>

\* Lines 192-219, 277: wl.create_f2b_whitelist()
CreateWhitelist ==
  /\ pc = "commented"
  /\ ignores' = create_f2b_whitelist(records)
  /\ pc' = "listed"
  /\ UNCHANGED << midrun, clock, log, journal, inserts, writes, exc, runs,
                  max_timestamp, pos, rec_keys, tier, key, records, comments,
                  draft, bak >>

\* Lines 246-255, 278: wl.write_f2b_whitelist(), and the process ends
BackupKeepsFirst(old_draft, old_bak) == IF old_bak.exists THEN old_bak ELSE old_draft
BackupOf(old_draft, old_bak) == IF old_draft.exists THEN old_draft ELSE old_bak

write_f2b_whitelist ==
  /\ pc = "listed"
  /\ bak' = BackupOf(draft, bak)
  /\ draft' = File(comments \o ignores)
  /\ writes' = writes + 1
  /\ pc' = "idle"
  /\ UNCHANGED << midrun, clock, log, journal, inserts, exc, runs, max_timestamp, pos,
                  rec_keys, tier, key, records, ignores, comments >>

Run(maxruns, results) ==
  \/ Construct(maxruns)
  \/ db_delete_old_records
  \/ process_new_log_records
  \/ ReadLine
  \/ EndOfLog
  \/ ReadDbToDict
  \/ create_f2b_comments
  \/ CallWhois
  \/ WhoisReturns(results)
  \/ EndOfComments
  \/ CreateWhitelist
  \/ write_f2b_whitelist

(* ------------------------------------------------------------------ *)
(* The program run again and again on a new installation; at any time  *)
(* the clock moves on, syslog writes a line, the operator empties the  *)
(* journal                                                             *)
(* ------------------------------------------------------------------ *)
Init ==
  /\ clock = 1
  /\ log = <<>>
  /\ journal = <<>>
  /\ inserts = <<>>
  /\ writes = 0
  /\ midrun = FALSE
  /\ pc = "idle"
  /\ exc = ""
  /\ runs = 0
  /\ max_timestamp = <<>>
  /\ pos = 0
  /\ rec_keys = <<>>
  /\ tier = 1
  /\ key = 0
  /\ records = EmptyDict
  /\ ignores = <<>>
  /\ comments = <<>>
  /\ draft = NoFile
  /\ bak = NoFile

Live(bodies, maxlog, maxruns, results) ==
  \/ Tick
  \/ AppendLine(bodies, maxlog)
  \/ db_empty
  \/ Run(maxruns, results)

\* Spec: logins from two addresses, a whois process of every outcome
Next == Live(LiveBodies, MaxLiveLog, MaxLiveRuns, WhoisResults)

Spec == Init /\ [][Next]_vars

\* The whois process when the registry answers or the program is not
\* installed
SteadyResults == {WhoisAnswered, WhoisMissing}

\* SpecRuns: more runs over a shorter log, so that the draft is written
\* again and again
NextRuns == Live(IngestBodies, MaxLog, MaxRuns, SteadyResults)

SpecRuns == Init /\ [][NextRuns]_vars

\* SpecAging: two runs over a log that grows old
NextAging == Live(AgingBodies, MaxOldLog, MaxOldRuns, SteadyResults)

SpecAging == Init /\ [][NextAging]_vars

(* ------------------------------------------------------------------ *)
(* SpecParse: a run, up to the end of process_new_log_records, over a  *)
(* log of lines of every shape                                         *)
(* ------------------------------------------------------------------ *)
\* The first line was written at instant 1, the others at instant 2, and the
\* program starts at instant 2.
ParseLogs ==
  UNION { [1..n -> ParseBodies] : n \in 0..MaxParseLog }

InitParse ==
  /\ clock = 2
  /\ \E bodies \in ParseLogs :
       log = [ i \in 1..Len(bodies) |->
                 [stamp |-> LogStamp(Moments[IF i < 2 THEN i ELSE 2]), parts |-> bodies[i]] ]
  /\ journal = <<>>
  /\ inserts = <<>>
  /\ writes = 0
  /\ midrun = FALSE
  /\ pc = "idle"
  /\ exc = ""
  /\ runs = 0
  /\ max_timestamp = <<>>
  /\ pos = 0
  /\ rec_keys = <<>>
  /\ tier = 1
  /\ key = 0
  /\ records = EmptyDict
  /\ ignores = <<>>
  /\ comments = <<>>
  /\ draft = NoFile
  /\ bak = NoFile

NextParse ==
  \/ Tick
  \/ Construct(ParseRuns)
  \/ db_delete_old_records
  \/ process_new_log_records
  \/ ReadLine
  \/ EndOfLog

SpecParse == InitParse /\ [][NextParse]_vars

(* ------------------------------------------------------------------ *)
(* SpecRender: the report and the directive of a large journal         *)
(* ------------------------------------------------------------------ *)
\* The journal after process_new_log_records holds logins from n addresses
\* 10.0.0.1 .. 10.0.0.n; the log has been rotated away.  The first k
\* addresses have the users and login counts of one variant, the others
\* those of the same or a later one.
Variants ==
  << << <<"alice", 1>> >>,
     << <<"alice", 2>> >>,
     << <<"alice", 3>> >>,
     << <<"alice", 1>>, <<"bob", 1>> >>,
     << <<"alice", 2>>, <<"bob", 1>>, <<"carol", 1>> >>,
     << <<"alice", 1>>, <<"bob", 1>>, <<"carol", 1>>, <<"dave", 4>> >> >>

RenderIp(i) ==
  <<"10.0.0.">> \o (IF i < 10 THEN <<DigitAtom(i)>>
                    ELSE <<DigitAtom(i \div 10), DigitAtom(i % 10)>>)

RECURSIVE RowsOf(_, _)
RowsOf(ip, variant) ==
  IF variant = <<>> THEN <<>>
  ELSE [ c \in 1..Head(variant)[2] |->
           [timestamp |-> strftime(Moments[2]), ip |-> ip,
            username |-> <<Head(variant)[1]>>, backend |-> "p"] ]
       \o RowsOf(ip, Tail(variant))

RECURSIVE RenderJournal(_, _, _, _)
RenderJournal(n, k, a, b) ==
  IF n = 0 THEN <<>>
  ELSE RenderJournal(n - 1, k, a, b)
       \o RowsOf(RenderIp(n), Variants[IF n <= k THEN a ELSE b])


InitRender ==
  /\ clock = 2
  /\ log = <<>>
  /\ \E n \in 0..MaxIPs : \E k \in 0..n :
       \E a \in 1..Len(Variants) : \E b \in a..Len(Variants) :
         journal = RenderJournal(n, k, a, b)
  /\ inserts = <<>>
  /\ writes = 0
  /\ midrun = FALSE
  /\ pc = "processed"
  /\ exc = ""
  /\ runs = 1
  /\ max_timestamp = <<>>
  /\ pos = 0
  /\ rec_keys = <<>>
  /\ tier = 1
  /\ key = 0
  /\ records = EmptyDict
  /\ ignores = <<>>
  /\ comments = <<>>
  /\ draft = NoFile
  /\ bak = NoFile

NextRender ==
  \/ ReadDbToDict
  \/ create_f2b_comments
  \/ CallWhois
  \/ WhoisReturns(SteadyResults)
  \/ EndOfComments
  \/ CreateWhitelist
  \/ write_f2b_whitelist

SpecRender == InitRender /\ [][NextRender]_vars

(* ------------------------------------------------------------------ *)
(* Properties                                                          *)
(* ------------------------------------------------------------------ *)
Tiers == {"hard", "soft", "individual", "unused"}

\* How often line i of the log has been inserted into the journal
InsertCount(i) == Cardinality({ k \in 1..Len(inserts) : inserts[k].line = i })

\* The number of rows of the journal equal to row
RowCopies(row) == Cardinality({ j \in 1..Len(journal) : journal[j] = row })

\* The stamps of the lines strictly increase (compared within one year)
StrictlyIncreasing(lines) ==
  \A i \in 1..(Len(lines) - 1) :
    StrLess(convert_time(lines[i].stamp, 2024), convert_time(lines[i + 1].stamp, 2024))

\* The line matches a rule and both IP and user name are extracted from it:
\* on an empty journal the loop body inserts it.
Qualifies(line) == ProcessLine(line, <<>>, Moments[clock].year).kind = "insert"

\* The index in FINDERS of the rule with backend tag b
RuleOf(b) == CHOOSE r \in 1..Len(FINDERS) : FINDERS[r].backend = b

Contains(line, marker) == Find(LineText(line), marker) >= 0

\* The address and the user name the templates of rule r take from the line
FieldsOf(line, r) ==
  ExtractFields(SplitLine(line), FINDERS[r], [ok |-> TRUE, ip |-> <<>>, user |-> <<>>])

\* C1 (as claimed): for a log whose stamps strictly increase, the journal
\* never holds two rows that were inserted from the same line of the log.
C1_NoDuplicateInsertion ==
  StrictlyIncreasing(log) =>
    \A a \in 1..Len(inserts) : \A b \in 1..Len(inserts) :
      (a < b /\ inserts[a].line = inserts[b].line) =>
        IF inserts[a].row = inserts[b].row
          THEN RowCopies(inserts[a].row) < 2
          ELSE RowCopies(inserts[a].row) = 0 \/ RowCopies(inserts[b].row) = 0

\* C10 (as claimed): when process_new_log_records completes and every line
\* of the log was written between two runs, every qualifying line the log
\* holds has been inserted into the journal, by this run or by an earlier
\* one.
C10_NoLostEvents ==
  [][ (pc = "reading" /\ pc' = "processed" /\ ~midrun) =>
        \A i \in 1..Len(log) : Qualifies(log[i]) => InsertCount(i) >= 1 ]_vars

\* C4 (as claimed): process_new_log_records never aborts on a line whose IP
\* or user name cannot be extracted (the ValueError of extract_between), and
\* a row is inserted only with both non-empty.
C4_SilentlyDiscarded ==
  /\ exc # "ValueError"
  /\ \A k \in 1..Len(inserts) :
       inserts[k].row.ip # <<>> /\ inserts[k].row.username # <<>>

\* C9: a row with backend tag b was inserted for a line only if the line
\* holds the success marker of rule b, not its failure marker, and the
\* success marker of no earlier rule; user name and IP are those the
\* templates of rule b extract.
C9_FirstMatchingRuleWins ==
  \A k \in 1..Len(inserts) :
    LET line == log[inserts[k].line]
        r == RuleOf(inserts[k].row.backend)
    IN /\ Contains(line, FINDERS[r].fstring)
       /\ ~Contains(line, FINDERS[r].skip)
       /\ \A e \in 1..(r - 1) : ~Contains(line, FINDERS[e].fstring)
       /\ inserts[k].row.username = FieldsOf(line, r).user
       /\ inserts[k].row.ip = NormalizeIp(FieldsOf(line, r).ip)

\* A line with the success markers of both rules was inserted, as rule 1's,
\* and so was a line of rule 2.
C9_Witness ==
  /\ \E k \in 1..Len(inserts) :
       /\ inserts[k].row.backend = "p"
       /\ Contains(log[inserts[k].line], FINDERS[2].fstring)
  /\ \E k \in 1..Len(inserts) : inserts[k].row.backend = "d"

\* The stored address expected for extracted address raw when addresses
\* with at least mingroups colon-separated groups are reduced
ReducedFrom(raw, mingroups) ==
  IF Len(SplitOn(raw, ":")) >= mingroups
    THEN Join(SubSeq(SplitOn(raw, ":"), 1, 4), ":") \o <<":", ":", "/64">>
    ELSE raw

RawIp(k) == FieldsOf(log[inserts[k].line], RuleOf(inserts[k].row.backend)).ip

\* C3 (as claimed): an address of 5 or more groups is stored as its first 4
\* groups and '::/64', every other address unchanged.
C3_ReducesFiveGroups ==
  \A k \in 1..Len(inserts) : inserts[k].row.ip = ReducedFrom(RawIp(k), 5)

\* C3 (amended): an address of 6 or more groups (more than 4 colons) is
\* stored as its first 4 groups and '::/64', every other address unchanged.
C3_ReducesSixGroups ==
  \A k \in 1..Len(inserts) : inserts[k].row.ip = ReducedFrom(RawIp(k), 6)

\* An address of 6 groups was stored reduced and one of 5 groups unchanged.
C3_Witness ==
  /\ \E k \in 1..Len(inserts) :
       Len(SplitOn(RawIp(k), ":")) = 6 /\ inserts[k].row.ip # RawIp(k)
  /\ \E k \in 1..Len(inserts) :
       Len(SplitOn(RawIp(k), ":")) = 5 /\ inserts[k].row.ip = RawIp(k)

\* The IP lines of a directive text, and the addresses they list
RECURSIVE IpLines(_)
IpLines(text) ==
  IF text = <<>> THEN <<>>
  ELSE IF Head(text).kind = "ips" THEN <<Head(text).ips>> \o IpLines(Tail(text))
  ELSE IpLines(Tail(text))

RECURSIVE Flatten(_)
Flatten(lists) == IF lists = <<>> THEN <<>> ELSE Head(lists) \o Flatten(Tail(lists))

DirectiveIps ==
  LET listed == Flatten(IpLines(ignores))
  IN { listed[j] : j \in 1..Len(listed) }

\* What the journal holds about an address
JournalIps == { journal[j].ip : j \in 1..Len(journal) }
UsersOf(ip) == { journal[j].username : j \in { i \in 1..Len(journal) : journal[i].ip = ip } }
Logins(ip, u) ==
  Cardinality({ j \in 1..Len(journal) : journal[j].ip = ip /\ journal[j].username = u })

\* C2 (as claimed): the IP lines of the directive list the selected IPs in
\* ascending order, each once, ten on every line but the last, which holds
\* the remainder.
C2_WrapsAtTen ==
  pc = "listed" =>
    LET lines == IpLines(ignores)
    IN /\ Flatten(lines) = KeysReduced(records)
       /\ \A i \in 1..(Len(lines) - 1) : Len(lines[i]) = 10
       /\ \A i \in 1..Len(lines) : Len(lines[i]) <= 10

\* C5: an address of the journal is in the directive exactly if it has more
\* than one user, or its only user has more than 2 logins; the directive
\* lists no other address.
C5_DirectiveSelection ==
  pc = "listed" =>
    /\ DirectiveIps \subseteq JournalIps
    /\ \A ip \in JournalIps :
         ip \in DirectiveIps <=>
           \/ Cardinality(UsersOf(ip)) > 1
           \/ \E u \in UsersOf(ip) : Logins(ip, u) > 2

\* The directive was made of a journal with an address of one user and 3
\* logins, which is listed, and one of one user and 2 logins, which is not.
C5_Witness ==
  /\ pc = "listed"
  /\ \E ip \in JournalIps : \E u \in UsersOf(ip) :
       UsersOf(ip) = {u} /\ Logins(ip, u) = 3 /\ ip \in DirectiveIps
  /\ \E ip \in JournalIps : \E u \in UsersOf(ip) :
       UsersOf(ip) = {u} /\ Logins(ip, u) = 2 /\ ip \notin DirectiveIps

\* The tier the claim gives an address
TierOf(ip) ==
  IF Cardinality(UsersOf(ip)) > 3 THEN "hard"
  ELSE IF Cardinality(UsersOf(ip)) >= 2 THEN "soft"
  ELSE IF \E u \in UsersOf(ip) : Logins(ip, u) >= 3 THEN "individual"
  ELSE "unused"

\* The report lines about an address
ReportLines(ip) ==
  { j \in 1..Len(comments) : comments[j].kind \in Tiers /\ comments[j].key = ip }

\* C6: while the report is written no address of the journal has more than
\* one line in it and every line is in the tier the claim defines for its
\* address; the completed report has exactly one line for every address.
C6_ExactlyOneTier ==
  pc \in {"commenting", "whois", "commented"} =>
    \A ip \in JournalIps :
      /\ Cardinality(ReportLines(ip)) <= 1
      /\ \A j \in ReportLines(ip) : comments[j].kind = TierOf(ip)
      /\ pc = "commented" => Cardinality(ReportLines(ip)) = 1

\* A report with an address at the boundary of 3 logins (individual) and one
\* below it (unused).
C6_Witness ==
  /\ pc = "commented"
  /\ \E ip \in JournalIps : \E u \in UsersOf(ip) :
       UsersOf(ip) = {u} /\ Logins(ip, u) = 3 /\ TierOf(ip) = "individual"
  /\ \E ip \in JournalIps : TierOf(ip) = "unused"

\* C7: write_f2b_whitelist leaves in the draft file this run's report
\* followed by its directive and, if there was a draft file before, leaves
\* that draft in the .bak file.
C7_SingleGenerationBackup ==
  [][ (pc = "listed" /\ pc' = "idle") =>
        /\ draft' = File(comments \o ignores)
        /\ draft.exists => bak' = draft ]_vars

\* The draft has been written a third time: the backup replaced the backup
\* the second writing made, and differs from the new draft.
C7_Witness ==
  /\ pc = "idle"
  /\ writes = 3
  /\ bak.exists
  /\ draft.exists
  /\ bak # draft

\* Date and time of day a journal timestamp YYYY-MM-DDTHH:MM:SS denotes
DigitVal(a) == CHOOSE d \in 0..9 : DigitAtom(d) = a
NumAt(ts, p, n) ==
  IF n = 4
    THEN DigitVal(ts[p]) * 1000 + DigitVal(ts[p + 1]) * 100
         + DigitVal(ts[p + 2]) * 10 + DigitVal(ts[p + 3])
    ELSE DigitVal(ts[p]) * 10 + DigitVal(ts[p + 1])
DayOf(ts) == ToOrdinal(NumAt(ts, 1, 4), NumAt(ts, 6, 2), NumAt(ts, 9, 2))
SecondOf(ts) == NumAt(ts, 12, 2) * 3600 + NumAt(ts, 15, 2) * 60 + NumAt(ts, 18, 2)

\* The row is strictly older than (now - RECORDS_MAX_AGE days)
TooOld(row, now) ==
  LET day == ToOrdinal(now.year, now.mon, now.day) - RECORDS_MAX_AGE
      second == now.hh * 3600 + now.mm * 60 + now.ss
  IN \/ DayOf(row.timestamp) < day
     \/ DayOf(row.timestamp) = day /\ SecondOf(row.timestamp) < second

RECURSIVE KeepNotTooOld(_, _)
KeepNotTooOld(rows, now) ==
  IF rows = <<>> THEN <<>>
  ELSE IF TooOld(Head(rows), now) THEN KeepNotTooOld(Tail(rows), now)
  ELSE <<Head(rows)>> \o KeepNotTooOld(Tail(rows), now)

\* C8: db_delete_old_records leaves in the journal exactly the rows that are
\* not strictly older than (now - RECORDS_MAX_AGE days), unchanged and in
\* their order.
C8_Pruning ==
  [][ (pc = "opened" /\ pc' = "pruned") =>
        journal' = KeepNotTooOld(journal, Moments[clock]) ]_vars

\* db_delete_old_records has just run on a journal that held a row too old,
\* which is gone, and one exactly RECORDS_MAX_AGE days old, which is kept.
C8_Witness ==
  /\ pc = "pruned"
  /\ \E k \in 1..Len(inserts) :
       TooOld(inserts[k].row, Moments[clock]) /\ RowCopies(inserts[k].row) = 0
  /\ \E j \in 1..Len(journal) :
       /\ ~TooOld(journal[j], Moments[clock])
       /\ DayOf(journal[j].timestamp)
            = ToOrdinal(Moments[clock].year, Moments[clock].mon, Moments[clock].day)
              - RECORDS_MAX_AGE
       /\ SecondOf(journal[j].timestamp)
            = Moments[clock].hh * 3600 + Moments[clock].mm * 60 + Moments[clock].ss

====
